---- MODULE Spec2Model ----
(***************************************************************************)
(* Cement bond log analysis: the LAS parser (services/lasParser.ts) and    *)
(* the analysis (services/analysisService.ts).                             *)
(*                                                                         *)
(* A JavaScript number is modelled as an exact rational <<n, d>> with      *)
(* d > 0 in lowest terms; the two non-numbers a record field can hold are  *)
(* NAN (<<0, 0>>) and UNDEF (<<1, 0>>, the value of an absent key).        *)
(* A record of LasData.data is a function from the keys it has to their    *)
(* values.  Records are objects: arrays derived from lasData.data by       *)
(* filter/sort hold references, modelled as indices into lasData.data.     *)
(***************************************************************************)
EXTENDS Integers, Sequences, FiniteSets, TLC

VARIABLES lasData, orig, args, calls, result, first, parser

vars == <<lasData, orig, args, calls, result, first, parser>>

----------------------------------------------------------------------------
(* Numbers *)

NAN == <<0, 0>>
UNDEF == <<1, 0>>

IsNum(v) == v[2] # 0

Abs(x) == IF x < 0 THEN -x ELSE x

RECURSIVE GCD(_, _)
GCD(a, b) == IF b = 0 THEN a ELSE GCD(b, a % b)

\* n / d in lowest terms; a zero denominator comes from a NaN/undefined operand
Norm(n, d) ==
  IF d = 0 THEN NAN
  ELSE LET g == GCD(Abs(n), Abs(d))
           s == IF d < 0 THEN -1 ELSE 1
       IN <<(s * n) \div g, (s * d) \div g>>

Num(i) == <<i, 1>>

RAdd(a, b) == Norm(a[1] * b[2] + b[1] * a[2], a[2] * b[2])
RSub(a, b) == Norm(a[1] * b[2] - b[1] * a[2], a[2] * b[2])
RMul(a, b) == Norm(a[1] * b[1], a[2] * b[2])
\* x / 0 is not a number (the callers divide by positive quantities only)
RDiv(a, b) ==
  IF ~IsNum(a) \/ ~IsNum(b) \/ b[1] = 0 THEN NAN ELSE Norm(a[1] * b[2], a[2] * b[1])

\* JavaScript relational operators: false as soon as an operand is NaN/undefined
Lt(a, b) == IsNum(a) /\ IsNum(b) /\ a[1] * b[2] < b[1] * a[2]
Le(a, b) == IsNum(a) /\ IsNum(b) /\ a[1] * b[2] <= b[1] * a[2]
Gt(a, b) == Lt(b, a)
Ge(a, b) == Le(b, a)

\* Math.max / Math.min / Math.abs: NaN as soon as an operand is not a number
RMax(a, b) == IF ~IsNum(a) \/ ~IsNum(b) THEN NAN ELSE IF Lt(a, b) THEN b ELSE a
RMin(a, b) == IF ~IsNum(a) \/ ~IsNum(b) THEN NAN ELSE IF Lt(b, a) THEN b ELSE a
RAbs(a) == IF ~IsNum(a) THEN NAN ELSE <<Abs(a[1]), a[2]>>

----------------------------------------------------------------------------
(* constants.ts *)

NOMBRES_CURVA_CBL == <<"AMP3FT", "CBL">>
UMBRAL_AMPLITUD_BUENA_MV == 2
UMBRAL_AMPLITUD_MALA_MV == 4
TOC_AMPLITUD_UMBRAL == 3
TOC_LONGITUD_MINIMA_M == 2
INTERVALO_LONGITUD_MINIMA_FT == 5
RANGO_SELLO_METROS == 1

----------------------------------------------------------------------------
(* Records *)

Get(d, key) == IF key \in DOMAIN d THEN d[key] ELSE UNDEF

Put(d, key, v) == [k \in DOMAIN d \cup {key} |-> IF k = key THEN v ELSE d[k]]

Category(d) == IF "Category" \in DOMAIN d THEN d["Category"] ELSE "none"

Includes(seq, x) == \E i \in 1..Len(seq) : seq[i] = x

----------------------------------------------------------------------------
(* analyzeData, stage by stage.  data is lasData.data (the heap of record  *)
(* objects); idx sequences are arrays of references into it.               *)

\* mutant: the first curve of the dataset that is a candidate name
FindCblCurveMut(curves) ==
  LET hits == SelectSeq(curves, LAMBDA c : Includes(NOMBRES_CURVA_CBL, c))
  IN IF Len(hits) = 0 THEN "" ELSE hits[1]

\* the first candidate name that the dataset's curve list includes ("" if none)
FindCblCurve(curves) ==
  LET hits == SelectSeq(NOMBRES_CURVA_CBL, LAMBDA c : Includes(curves, c))
  IN IF Len(hits) = 0 THEN "" ELSE hits[1]

\* lasData.data.filter(d => d[depth] > 0 && (d[cbl] === undefined || d[cbl] >= 0))
StrictFilter(data, depthCurve, cblCurve) ==
  SelectSeq([i \in 1..Len(data) |-> i], LAMBDA i :
     /\ Gt(Get(data[i], depthCurve), Num(0))
     /\ (Get(data[i], cblCurve) = UNDEF \/ Ge(Get(data[i], cblCurve), Num(0))))

\* Array.prototype.sort with (a, b) => a[depth] - b[depth]: stable, ascending
RECURSIVE InsertByDepth(_, _, _, _)
InsertByDepth(sorted, x, data, depthCurve) ==
  IF Len(sorted) = 0 THEN <<x>>
  ELSE IF Le(Get(data[sorted[Len(sorted)]], depthCurve), Get(data[x], depthCurve))
       THEN Append(sorted, x)
       ELSE Append(InsertByDepth(SubSeq(sorted, 1, Len(sorted) - 1), x, data, depthCurve),
                   sorted[Len(sorted)])

RECURSIVE SortByDepth(_, _, _)
SortByDepth(idx, data, depthCurve) ==
  IF Len(idx) = 0 THEN <<>>
  ELSE InsertByDepth(SortByDepth(SubSeq(idx, 1, Len(idx) - 1), data, depthCurve),
                     idx[Len(idx)], data, depthCurve)

\* logData.filter(d => d[cbl] != null && !isNaN(d[cbl]))
TocData(data, logData, cblCurve) ==
  SelectSeq(logData, LAMBDA r : IsNum(Get(data[r], cblCurve)))

\* the loop that collects the maximal runs of meetsThreshold (cur = 0: no open run)
RECURSIVE ScanBlocks(_, _, _, _)
ScanBlocks(meets, i, cur, blocks) ==
  IF i > Len(meets)
  THEN IF cur # 0 THEN Append(blocks, [start |-> cur, end |-> Len(meets)]) ELSE blocks
  ELSE IF meets[i] /\ cur = 0 THEN ScanBlocks(meets, i + 1, i, blocks)
  ELSE IF ~meets[i] /\ cur # 0
       THEN ScanBlocks(meets, i + 1, 0, Append(blocks, [start |-> cur, end |-> i - 1]))
  ELSE ScanBlocks(meets, i + 1, cur, blocks)

\* mutant: every run counts, whatever its depth span
ValidBlocksMut(data, tocData, depthCurve, cblCurve) ==
  LET meets == [i \in 1..Len(tocData) |->
                  Lt(Get(data[tocData[i]], cblCurve), Num(TOC_AMPLITUD_UMBRAL))]
  IN ScanBlocks(meets, 1, 0, <<>>)

\* blocks.filter(b => depth[b.end] - depth[b.start] >= TOC_LONGITUD_MINIMA_M)
ValidBlocks(data, tocData, depthCurve, cblCurve) ==
  LET meets == [i \in 1..Len(tocData) |->
                  Lt(Get(data[tocData[i]], cblCurve), Num(TOC_AMPLITUD_UMBRAL))]
      blocks == ScanBlocks(meets, 1, 0, <<>>)
  IN SelectSeq(blocks, LAMBDA b :
        Ge(RSub(Get(data[tocData[b.end]], depthCurve),
                Get(data[tocData[b.start]], depthCurve)),
           Num(TOC_LONGITUD_MINIMA_M)))

\* mutant: gradient <= minGradient, so the last minimal pair wins
RECURSIVE MinGradientIndexMut(_, _, _, _, _, _)
MinGradientIndexMut(data, tocData, cblCurve, i, minGradient, minIndex) ==
  IF i > Len(tocData) THEN minIndex
  ELSE LET gradient == RSub(Get(data[tocData[i]], cblCurve),
                            Get(data[tocData[i - 1]], cblCurve))
       IN IF minIndex = 0 \/ Le(gradient, minGradient)
          THEN MinGradientIndexMut(data, tocData, cblCurve, i + 1, gradient, i)
          ELSE MinGradientIndexMut(data, tocData, cblCurve, i + 1, minGradient, minIndex)

\* the gradient loop: index of the first minimal (next - previous), 0 if none
RECURSIVE MinGradientIndex(_, _, _, _, _, _)
MinGradientIndex(data, tocData, cblCurve, i, minGradient, minIndex) ==
  IF i > Len(tocData) THEN minIndex
  ELSE LET gradient == RSub(Get(data[tocData[i]], cblCurve),
                            Get(data[tocData[i - 1]], cblCurve))
       IN IF minIndex = 0 \/ Lt(gradient, minGradient)
          THEN MinGradientIndex(data, tocData, cblCurve, i + 1, gradient, i)
          ELSE MinGradientIndex(data, tocData, cblCurve, i + 1, minGradient, minIndex)

\* mutant: the default TOC is the depth of the deepest record
DetectTocMut(data, logData, depthCurve, cblCurve) ==
  LET tocData == TocData(data, logData, cblCurve)
      default == Get(data[logData[Len(logData)]], depthCurve)
  IN IF Len(tocData) = 0 THEN default
     ELSE LET validBlocks == ValidBlocks(data, tocData, depthCurve, cblCurve)
          IN IF Len(validBlocks) > 0
             THEN Get(data[tocData[validBlocks[1].start]], depthCurve)
             ELSE LET g == MinGradientIndex(data, tocData, cblCurve, 2, NAN, 0)
                  IN IF g > 0 THEN Get(data[tocData[g]], depthCurve) ELSE default

\* 1. Detectar TOC (logData is not empty)
DetectToc(data, logData, depthCurve, cblCurve) ==
  LET tocData == TocData(data, logData, cblCurve)
      default == Get(data[logData[1]], depthCurve)
  IN IF Len(tocData) = 0 THEN default
     ELSE LET validBlocks == ValidBlocks(data, tocData, depthCurve, cblCurve)
          IN IF Len(validBlocks) > 0
             THEN Get(data[tocData[validBlocks[1].start]], depthCurve)
             ELSE LET g == MinGradientIndex(data, tocData, cblCurve, 2, NAN, 0)
                  IN IF g > 0 THEN Get(data[tocData[g]], depthCurve) ELSE default

\* logData.filter(d => d[depth] >= tocDepth)
CementedData(data, logData, depthCurve, tocDepth) ==
  SelectSeq(logData, LAMBDA r : Ge(Get(data[r], depthCurve), tocDepth))

\* mutant: the offset is not divided by the length of the gap
RECURSIVE FillGapMut(_, _, _, _, _, _)
FillGapMut(data, cem, key, last, i, j) ==
  IF j >= i - last THEN data
  ELSE LET startVal == Get(data[cem[last]], key)
           endVal == Get(data[cem[i]], key)
           diff == RSub(endVal, startVal)
           v == RAdd(startVal, RMul(diff, Num(j)))
           r == cem[last + j]
       IN FillGapMut([data EXCEPT ![r] = Put(data[r], key, v)], cem, key, last, i, j + 1)

\* the inner loop of interpolate: fills cem[last + 1 .. i - 1]
RECURSIVE FillGap(_, _, _, _, _, _)
FillGap(data, cem, key, last, i, j) ==
  IF j >= i - last THEN data
  ELSE LET startVal == Get(data[cem[last]], key)
           endVal == Get(data[cem[i]], key)
           diff == RSub(endVal, startVal)
           v == RAdd(startVal, RDiv(RMul(diff, Num(j)), Num(i - last)))
           r == cem[last + j]
       IN FillGap([data EXCEPT ![r] = Put(data[r], key, v)], cem, key, last, i, j + 1)

\* interpolate(cementedData, key): mutates the records in place (last = 0: none yet)
RECURSIVE Interpolate(_, _, _, _, _)
Interpolate(data, cem, key, i, last) ==
  IF i > Len(cem) THEN data
  ELSE IF IsNum(Get(data[cem[i]], key))
       THEN IF last # 0 /\ i - last > 1
            THEN Interpolate(FillGap(data, cem, key, last, i, 1), cem, key, i + 1, i)
            ELSE Interpolate(data, cem, key, i + 1, i)
       ELSE Interpolate(data, cem, key, i + 1, last)

\* [cblCurve, 'CLDC', 'NEU'].forEach(key => curves.includes(key) && interpolate(...))
RECURSIVE InterpolateAll(_, _, _, _)
InterpolateAll(data, cem, keys, curves) ==
  IF Len(keys) = 0 THEN data
  ELSE InterpolateAll(
         IF Includes(curves, Head(keys)) THEN Interpolate(data, cem, Head(keys), 1, 0)
         ELSE data,
         cem, Tail(keys), curves)

\* mutant: amp > high instead of amp >= high
ClassifyMut(amp) ==
  IF Gt(amp, Num(UMBRAL_AMPLITUD_MALA_MV)) THEN "Malo"
  ELSE IF Gt(amp, Num(UMBRAL_AMPLITUD_BUENA_MV)) /\ Lt(amp, Num(UMBRAL_AMPLITUD_MALA_MV))
       THEN "Medio"
  ELSE "Bueno"

\* the category of one amplitude value
Classify(amp) ==
  IF Ge(amp, Num(UMBRAL_AMPLITUD_MALA_MV)) THEN "Malo"
  ELSE IF Gt(amp, Num(UMBRAL_AMPLITUD_BUENA_MV)) /\ Lt(amp, Num(UMBRAL_AMPLITUD_MALA_MV))
       THEN "Medio"
  ELSE "Bueno"

\* cementedData.forEach(d => d.Category = ...): mutates the records in place
Categorize(data, cem, cblCurve) ==
  [r \in 1..Len(data) |->
     IF Includes(cem, r)
     THEN Put(data[r], "Category", Classify(Get(data[r], cblCurve)))
     ELSE data[r]]

CountCategory(data, df, cat) ==
  Cardinality({i \in 1..Len(df) : Category(data[df[i]]) = cat})

Clip(lo, hi, x) == RMax(lo, RMin(hi, x))

\* mutant: the branches applied to tocDepth - tocSolicitado
TScoreMut(diferenciaToc) ==
  IF Le(diferenciaToc, Num(0)) /\ Ge(diferenciaToc, Num(-40)) THEN <<1, 1>>
  ELSE IF Lt(diferenciaToc, Num(-40)) THEN <<9, 10>>
  ELSE IF Gt(diferenciaToc, Num(0)) /\ Le(diferenciaToc, Num(40)) THEN <<4, 5>>
  ELSE IF Gt(diferenciaToc, Num(40)) THEN <<0, 1>>
  ELSE UNDEF

\* T from diferenciaToc = tocSolicitado - tocDepth (UNDEF when no branch applies)
TScore(diferenciaToc) ==
  IF Ge(diferenciaToc, Num(0)) /\ Le(diferenciaToc, Num(40)) THEN <<1, 1>>
  ELSE IF Gt(diferenciaToc, Num(40)) THEN <<9, 10>>
  ELSE IF Lt(diferenciaToc, Num(0)) /\ Ge(diferenciaToc, Num(-40)) THEN <<4, 5>>
  ELSE IF Lt(diferenciaToc, Num(-40)) THEN <<0, 1>>
  ELSE UNDEF

\* mutant: no clip
AScoreMut(M, alturaAnilloSolicitado) ==
  RSub(Num(1), RDiv(M, alturaAnilloSolicitado))

\* A = clip(1 - M / alturaAnilloSolicitado)
AScore(M, alturaAnilloSolicitado) ==
  Clip(Num(0), Num(1), RSub(Num(1), RDiv(M, alturaAnilloSolicitado)))

\* mutant: the two weights exchanged
CementScoreMut(T, A) ==
  Clip(Num(0), Num(100), RAdd(RMul(Num(70), T), RMul(Num(30), A)))

\* E = clip((30 * T) + (70 * A))
CementScore(T, A) ==
  Clip(Num(0), Num(100), RAdd(RMul(Num(30), T), RMul(Num(70), A)))

\* mutant: the percentage is computed whatever the total
BaseKpisMut(data, cem, step, tocDepth, tocSolicitado, alturaAnilloSolicitado) ==
  LET metrosBuenos == RMul(Num(CountCategory(data, cem, "Bueno")), step)
      metrosMedios == RMul(Num(CountCategory(data, cem, "Medio")), step)
      metrosMalos == RMul(Num(CountCategory(data, cem, "Malo")), step)
      metrosTotales == RAdd(RAdd(metrosBuenos, metrosMedios), metrosMalos)
  IN [TOC_Encontrado |-> tocDepth,
      Total_Meters |-> metrosTotales,
      Good_Meters |-> metrosBuenos,
      Medium_Meters |-> metrosMedios,
      Bad_Meters |-> metrosMalos,
      Good_Bond_Percentage |-> RMul(RDiv(metrosBuenos, metrosTotales), Num(100)),
      TOC_Solicitado |-> tocSolicitado,
      Altura_Anillo_Solicitado |-> alturaAnilloSolicitado]

\* 3. Calcular KPIs: the always-present fields
BaseKpis(data, cem, step, tocDepth, tocSolicitado, alturaAnilloSolicitado) ==
  LET metrosBuenos == RMul(Num(CountCategory(data, cem, "Bueno")), step)
      metrosMedios == RMul(Num(CountCategory(data, cem, "Medio")), step)
      metrosMalos == RMul(Num(CountCategory(data, cem, "Malo")), step)
      metrosTotales == RAdd(RAdd(metrosBuenos, metrosMedios), metrosMalos)
  IN [TOC_Encontrado |-> tocDepth,
      Total_Meters |-> metrosTotales,
      Good_Meters |-> metrosBuenos,
      Medium_Meters |-> metrosMedios,
      Bad_Meters |-> metrosMalos,
      Good_Bond_Percentage |->
         IF Gt(metrosTotales, Num(0))
         THEN RMul(RDiv(metrosBuenos, metrosTotales), Num(100)) ELSE Num(0),
      TOC_Solicitado |-> tocSolicitado,
      Altura_Anillo_Solicitado |-> alturaAnilloSolicitado]

\* mutant: the fields are set as soon as a TOC is requested
ScoreKpisMut(kpis, tocDepth, tocSolicitado, alturaAnilloSolicitado) ==
  IF Gt(tocSolicitado, Num(0))
  THEN LET diferenciaToc == RSub(tocSolicitado, tocDepth)
           T == TScore(diferenciaToc)
           M == RAdd(kpis.Bad_Meters, kpis.Medium_Meters)
           A == AScore(M, alturaAnilloSolicitado)
           scored == [Diferencia_TOC |-> RSub(tocDepth, tocSolicitado),
                      TOC_Evaluacion_T |-> IF T # UNDEF THEN RMul(T, Num(100)) ELSE UNDEF,
                      Adherencia_A |-> RMul(A, Num(100))]
       IN IF T # UNDEF
          THEN ("Cement_Score" :> CementScore(T, A)) @@ scored @@ kpis
          ELSE scored @@ kpis
  ELSE kpis

\* the fields set only if (tocSolicitado > 0 && alturaAnilloSolicitado > 0)
ScoreKpis(kpis, tocDepth, tocSolicitado, alturaAnilloSolicitado) ==
  IF Gt(tocSolicitado, Num(0)) /\ Gt(alturaAnilloSolicitado, Num(0))
  THEN LET diferenciaToc == RSub(tocSolicitado, tocDepth)
           T == TScore(diferenciaToc)
           M == RAdd(kpis.Bad_Meters, kpis.Medium_Meters)
           A == AScore(M, alturaAnilloSolicitado)
           scored == [Diferencia_TOC |-> RSub(tocDepth, tocSolicitado),
                      TOC_Evaluacion_T |-> IF T # UNDEF THEN RMul(T, Num(100)) ELSE UNDEF,
                      Adherencia_A |-> RMul(A, Num(100))]
       IN IF T # UNDEF
          THEN ("Cement_Score" :> CementScore(T, A)) @@ scored @@ kpis
          ELSE scored @@ kpis
  ELSE kpis

\* mutant: longitud without the + step
calcularAdherenciaIntervaloMut(data, df, depthCurve, step) ==
  IF Len(df) = 0 THEN [A |-> NAN, longitud |-> Num(0)]
  ELSE LET malos == RMul(Num(CountCategory(data, df, "Malo")), step)
           medios == RMul(Num(CountCategory(data, df, "Medio")), step)
           longitud == RSub(Get(data[df[Len(df)]], depthCurve),
                            Get(data[df[1]], depthCurve))
           M == RAdd(malos, medios)
           A_val == RSub(Num(1), RDiv(M, longitud))
       IN [A |-> IF IsNum(A_val) THEN Clip(Num(0), Num(1), A_val) ELSE NAN,
           longitud |-> longitud]

calcularAdherenciaIntervalo(data, df, depthCurve, step) ==
  IF Len(df) = 0 THEN [A |-> NAN, longitud |-> Num(0)]
  ELSE LET malos == RMul(Num(CountCategory(data, df, "Malo")), step)
           medios == RMul(Num(CountCategory(data, df, "Medio")), step)
           longitud == RAdd(RSub(Get(data[df[Len(df)]], depthCurve),
                                 Get(data[df[1]], depthCurve)), step)
           M == RAdd(malos, medios)
           A_val == RSub(Num(1), RDiv(M, longitud))
       IN [A |-> IF IsNum(A_val) THEN Clip(Num(0), Num(1), A_val) ELSE NAN,
           longitud |-> longitud]

\* cementedData.filter(d => d[depth] >= top && d[depth] <= base)
Window(data, cem, depthCurve, top, base) ==
  SelectSeq(cem, LAMBDA r : /\ Ge(Get(data[r], depthCurve), top)
                            /\ Le(Get(data[r], depthCurve), base))

LayerWindow(data, cem, depthCurve, capa) ==
  Window(data, cem, depthCurve, capa.top, capa.base)

\* mutant: the padding narrows the window
SealWindowMut(data, cem, depthCurve, capa) ==
  LET minDepthCemented == Get(data[cem[1]], depthCurve)
      maxDepthCemented == Get(data[cem[Len(cem)]], depthCurve)
      sello_top == RMax(RAdd(capa.top, Num(RANGO_SELLO_METROS)), minDepthCemented)
      sello_base == RMin(RSub(capa.base, Num(RANGO_SELLO_METROS)), maxDepthCemented)
  IN Window(data, cem, depthCurve, sello_top, sello_base)

\* the cemented records of the layer padded by RANGO_SELLO_METROS on both sides
SealWindow(data, cem, depthCurve, capa) ==
  LET minDepthCemented == Get(data[cem[1]], depthCurve)
      maxDepthCemented == Get(data[cem[Len(cem)]], depthCurve)
      sello_top == RMax(RSub(capa.top, Num(RANGO_SELLO_METROS)), minDepthCemented)
      sello_base == RMin(RAdd(capa.base, Num(RANGO_SELLO_METROS)), maxDepthCemented)
  IN Window(data, cem, depthCurve, sello_top, sello_base)

\* the accumulation of total_M and total_length over the layers' windows
RECURSIVE SumWindows(_, _, _, _, _, _, _)
SumWindows(data, depthCurve, step, windows, i, total_M, total_length) ==
  IF i > Len(windows) THEN [M |-> total_M, length |-> total_length]
  ELSE LET r == calcularAdherenciaIntervalo(data, windows[i], depthCurve, step)
       IN IF IsNum(r.A) /\ Gt(r.longitud, Num(0))
          THEN SumWindows(data, depthCurve, step, windows, i + 1,
                          RAdd(total_M, RMul(RSub(Num(1), r.A), r.longitud)),
                          RAdd(total_length, r.longitud))
          ELSE SumWindows(data, depthCurve, step, windows, i + 1, total_M, total_length)

\* total_length > 0 ? clip((1 - total_M / total_length) * 100) : undefined
AggregateAdhesion(tot) ==
  IF Gt(tot.length, Num(0))
  THEN Clip(Num(0), Num(100), RMul(RSub(Num(1), RDiv(tot.M, tot.length)), Num(100)))
  ELSE UNDEF

\* the fields set only if (layersData.length > 0 && cementedData.length > 0)
LayerKpis(kpis, data, cem, depthCurve, step, layersData) ==
  IF Len(layersData) > 0 /\ Len(cem) > 0
  THEN LET capas == [i \in 1..Len(layersData) |->
                        LayerWindow(data, cem, depthCurve, layersData[i])]
           sellos == [i \in 1..Len(layersData) |->
                        SealWindow(data, cem, depthCurve, layersData[i])]
       IN [Apnz_Percentage |->
              AggregateAdhesion(SumWindows(data, depthCurve, step, capas, 1, Num(0), Num(0))),
           Asello_Percentage |->
              AggregateAdhesion(SumWindows(data, depthCurve, step, sellos, 1, Num(0), Num(0)))]
            @@ kpis
  ELSE kpis

\* 4. the segmentation loop (cur: the open block's category, top: its start depth)
RECURSIVE Segment(_, _, _, _, _, _, _)
Segment(data, cem, depthCurve, i, cur, top, out) ==
  IF i > Len(cem)
  THEN Append(out, [Category |-> cur, Top |-> top,
                    Base |-> Get(data[cem[Len(cem)]], depthCurve)])
  ELSE IF Category(data[cem[i]]) # cur
       THEN Segment(data, cem, depthCurve, i + 1, Category(data[cem[i]]),
                    Get(data[cem[i]], depthCurve),
                    Append(out, [Category |-> cur, Top |-> top,
                                 Base |-> Get(data[cem[i - 1]], depthCurve)]))
       ELSE Segment(data, cem, depthCurve, i + 1, cur, top, out)

\* mutant: no minimum length
QualityIntervalsMut(data, cem, depthCurve) ==
  LET intervals == IF Len(cem) > 0
                   THEN Segment(data, cem, depthCurve, 2, Category(data[cem[1]]),
                                Get(data[cem[1]], depthCurve), <<>>)
                   ELSE <<>>
      withLength == [k \in 1..Len(intervals) |->
                       [Calidad |-> intervals[k].Category,
                        Tope |-> intervals[k].Top,
                        Base |-> intervals[k].Base,
                        Longitud |-> RSub(intervals[k].Base, intervals[k].Top)]]
  IN SelectSeq(withLength, LAMBDA q : q.Calidad \in {"Malo", "Medio"})

\* longitudMinimaM, the map to Length_m, the filter and the final map
QualityIntervals(data, cem, depthCurve) ==
  LET intervals == IF Len(cem) > 0
                   THEN Segment(data, cem, depthCurve, 2, Category(data[cem[1]]),
                                Get(data[cem[1]], depthCurve), <<>>)
                   ELSE <<>>
      longitudMinimaM == RMul(Num(INTERVALO_LONGITUD_MINIMA_FT), <<381, 1250>>)
      withLength == [k \in 1..Len(intervals) |->
                       [Calidad |-> intervals[k].Category,
                        Tope |-> intervals[k].Top,
                        Base |-> intervals[k].Base,
                        Longitud |-> RSub(intervals[k].Base, intervals[k].Top)]]
  IN SelectSeq(withLength, LAMBDA q : /\ Ge(q.Longitud, longitudMinimaM)
                                      /\ q.Calidad \in {"Malo", "Medio"})

\* 5. Layer Analysis
LayerAnalysis(data, cem, depthCurve, step, layersData, wellName) ==
  IF Len(layersData) > 0 /\ Len(cem) > 0
  THEN [i \in 1..Len(layersData) |->
          LET capa == layersData[i]
              rc == calcularAdherenciaIntervalo(
                      data, LayerWindow(data, cem, depthCurve, capa), depthCurve, step)
              rs == calcularAdherenciaIntervalo(
                      data, SealWindow(data, cem, depthCurve, capa), depthCurve, step)
          IN [Pozo |-> wellName, Capa |-> capa.wellName,
              Tope |-> capa.top, Base |-> capa.base,
              Longitud |-> rc.longitud,
              Adherencia |-> IF IsNum(rc.A) THEN RMul(rc.A, Num(100)) ELSE NAN,
              AdherenciaSello |-> IF IsNum(rs.A) THEN RMul(rs.A, Num(100)) ELSE NAN]]
  ELSE <<>>

\* categoryMap.get(depth): the category of the last cemented record at that depth
CategoryAt(data, cem, depthCurve, depth) ==
  LET hits == SelectSeq(cem, LAMBDA r : /\ Get(data[r], depthCurve) = depth
                                        /\ Category(data[r]) # "none")
  IN IF Len(hits) = 0 THEN "none" ELSE Category(data[hits[Len(hits)]])

\* logData.map(d => category ? { ...d, Category: category } : d)
EnrichedLogData(data, logData, cem, depthCurve) ==
  [i \in 1..Len(logData) |->
     LET d == data[logData[i]]
         category == CategoryAt(data, cem, depthCurve, Get(d, depthCurve))
     IN IF category # "none" THEN Put(d, "Category", category) ELSE d]

\* mutant: the records are categorized before the error is thrown
FailureMut(message, data) ==
  [status |-> "error", error |-> message,
   data |-> [r \in 1..Len(data) |-> Put(data[r], "Category", "Bueno")]]

\* throw new Error(message): no result, the records as they were
Failure(message, data) ==
  [status |-> "error", error |-> message, data |-> data]

\* analyzeData: the returned result (or the error thrown), and in field data the
\* records of lasData.data as the call leaves them
analyzeData(las, layersData, tocSolicitado, alturaAnilloSolicitado) ==
  LET depthCurve == las.depthCurveName
      cblCurve == FindCblCurve(las.curves)
      filtered == StrictFilter(las.data, depthCurve, cblCurve)
  IN IF cblCurve = "" THEN Failure("NoCompatibleCurve", las.data)
     ELSE IF Len(filtered) = 0 THEN Failure("NoValidData", las.data)
     ELSE
       LET logData == SortByDepth(filtered, las.data, depthCurve)
           tocDepth == DetectToc(las.data, logData, depthCurve, cblCurve)
           cem == CementedData(las.data, logData, depthCurve, tocDepth)
           data == IF Len(cem) > 0
                   THEN Categorize(
                          InterpolateAll(las.data, cem, <<cblCurve, "CLDC", "NEU">>, las.curves),
                          cem, cblCurve)
                   ELSE las.data
           kpis == LayerKpis(
                     ScoreKpis(
                       BaseKpis(data, cem, las.step, tocDepth, tocSolicitado,
                                alturaAnilloSolicitado),
                       tocDepth, tocSolicitado, alturaAnilloSolicitado),
                     data, cem, depthCurve, las.step, layersData)
       IN [status |-> "ok", error |-> "", data |-> data,
           wellName |-> las.wellName,
           kpis |-> kpis,
           cemented |-> cem,
           cementedData |-> [i \in 1..Len(cem) |-> data[cem[i]]],
           logData |-> EnrichedLogData(data, logData, cem, depthCurve),
           logIdx |-> logData,
           cblCurve |-> cblCurve,
           intervals |-> QualityIntervals(data, cem, depthCurve),
           layerAnalysis |-> LayerAnalysis(data, cem, depthCurve, las.step,
                                           layersData, las.wellName),
           depthCurveName |-> depthCurve,
           step |-> las.step]

----------------------------------------------------------------------------
(* parseLasFile (services/lasParser.ts).  A line is the sequence of the     *)
(* whitespace-separated tokens of its trimmed text (<<>>: a blank line); a  *)
(* colon is a token of its own.  TLC cannot look into a string, so every    *)
(* string function of the parser is tabulated over the tokens of the files. *)

\* step === null
NULL == <<-1, 0>>

\* !trimmedLine || trimmedLine.startsWith('#')
IsSkipped(line) == IF Len(line) = 0 THEN TRUE ELSE Head(line) = "#"

\* trimmedLine.startsWith('~')
IsSectionLine(line) == Head(line) \in {"~", "~W", "~C", "~A", "~V"}

\* mutant: only W, C and A are matched
SectionHeaderMut(line) ==
  CASE Head(line) = "~W" -> "W"
    [] Head(line) = "~C" -> "C"
    [] Head(line) = "~A" -> "A"
    [] OTHER -> ""

\* trimmedLine.match(/^~\s*([A-Z])/i)[1].toUpperCase() ("": no match)
SectionHeader(line) ==
  CASE Head(line) = "~W" -> "W"
    [] Head(line) = "~C" -> "C"
    [] Head(line) = "~A" -> "A"
    [] Head(line) = "~V" -> "V"
    [] OTHER -> ""

\* parseFloat(v)
parseFloat(v) ==
  CASE v = "0" -> Num(0)
    [] v = "1" -> Num(1)
    [] v = "2" -> Num(2)
    [] v = "3" -> Num(3)
    [] v = "4" -> Num(4)
    [] v = "-1" -> Num(-1)
    [] v = "-2" -> Num(-2)
    [] v = "2.0" -> Num(2)
    [] v = "100.0" -> Num(100)
    [] v = "100.1524" -> <<250381, 2500>>
    [] OTHER -> NAN

\* the longest prefix of v that matches -?\d*\.?\d*
NumberPrefix(v) ==
  IF v \in {"0", "1", "2", "3", "4", "-1", "-2", "2.0", "100.0", "100.1524", "-"} THEN v
  ELSE ""

\* v.split('.')[0]
BeforeDot(v) ==
  CASE v = "DEPT.M" -> "DEPT"
    [] v = "CBL.MV" -> "CBL"
    [] v = "AMP3FT.MV" -> "AMP3FT"
    [] v = "GR.API" -> "GR"
    [] v = "STEP.M" -> "STEP"
    [] v = "WELL." -> "WELL"
    [] v = "2.0" -> "2"
    [] v \in {"100.0", "100.1524"} -> "100"
    [] OTHER -> v

\* the positions of the colons of a line
Colons(line) == {k \in 1..Len(line) : line[k] = ":"}

\* /^WELL\s*\.\s*(.*?)\s*:/i: the tokens between "WELL." and the first colon
\* (<<>>: no match or an empty capture)
WellCapture(line) ==
  IF Head(line) = "WELL." /\ Colons(line) # {}
  THEN SubSeq(line, 2, (CHOOSE k \in Colons(line) : \A j \in Colons(line) : k <= j) - 1)
  ELSE <<>>

\* mutant: the value is read before the colon
StepCaptureMut(line) ==
  IF Head(line) \in {"STEP", "STEP."} /\ Colons(line) # {} /\ Len(line) >= 2
  THEN NumberPrefix(line[2])
  ELSE ""

\* /^STEP\.?\s+.*\s*:\s*(-?\d*\.?\d*)/i: the greedy .* runs to the last colon and
\* the group captures the number that starts the text after it ("": no match or
\* an empty capture)
StepCapture(line) ==
  IF Head(line) \in {"STEP", "STEP."} /\ Colons(line) # {}
  THEN LET last == CHOOSE k \in Colons(line) : \A j \in Colons(line) : j <= k
       IN IF last = Len(line) THEN "" ELSE NumberPrefix(line[last + 1])
  ELSE ""

\* case 'W': the well name and the step after the line
WellInfo(p, line) ==
  LET wellMatch == WellCapture(line)
      stepMatch == StepCapture(line)
  IN [p EXCEPT !.wellName = IF Len(wellMatch) > 0 THEN wellMatch[1] ELSE @,
               !.step = IF stepMatch # "" THEN parseFloat(stepMatch) ELSE @]

\* case 'C': trimmedLine.split('.')[0].trim().split(/\s+/)[0], pushed if not empty
CurveInfo(p, line) ==
  LET curveMnemonic == BeforeDot(Head(line))
  IN IF curveMnemonic # "" THEN [p EXCEPT !.curves = Append(@, curveMnemonic)] ELSE p

\* curves.forEach((curve, idx) => record[curve] = values[idx])
RECURSIVE RecordOf(_, _, _)
RecordOf(curves, values, idx) ==
  IF idx > Len(curves) THEN <<>>
  ELSE LET rest == RecordOf(curves, values, idx + 1)
       IN [k \in DOMAIN rest \cup {curves[idx]} |->
             IF k \in DOMAIN rest THEN rest[k] ELSE values[idx]]

\* mutant: a row needs at least as many values as there are curves
AcceptsRowMut(curves, values) == Len(values) > 0 /\ Len(values) >= Len(curves)

\* values.length > 0 && values.length === curves.length
AcceptsRow(curves, values) == Len(values) > 0 /\ Len(values) = Len(curves)

\* case 'A': the record of the line, pushed if the line has one value per curve
AsciiLogData(p, line) ==
  LET values == [k \in 1..Len(line) |-> parseFloat(line[k])]
  IN IF AcceptsRow(p.curves, values)
     THEN [p EXCEPT !.data = Append(@, RecordOf(p.curves, values, 1))]
     ELSE p

\* mutant: the last occurrence of a name keeps its place
RECURSIVE FinalCurvesMut(_)
FinalCurvesMut(curves) ==
  IF Len(curves) = 0 THEN <<>>
  ELSE IF Includes(Tail(curves), Head(curves)) THEN FinalCurvesMut(Tail(curves))
       ELSE <<Head(curves)>> \o FinalCurvesMut(Tail(curves))

\* Array.from(new Set(curves))
RECURSIVE FinalCurves(_)
FinalCurves(curves) ==
  IF Len(curves) = 0 THEN <<>>
  ELSE LET before == FinalCurves(SubSeq(curves, 1, Len(curves) - 1))
       IN IF Includes(before, curves[Len(curves)]) THEN before
          ELSE Append(before, curves[Len(curves)])

\* mutant: the fallback is the depth of the second record
FallbackStepMut(p, depthCurve) ==
  IF /\ p.step = NULL /\ Len(p.data) > 1
     /\ Get(p.data[1], depthCurve) # UNDEF /\ Get(p.data[2], depthCurve) # UNDEF
  THEN RAbs(Get(p.data[2], depthCurve))
  ELSE IF p.step = NULL THEN <<381, 2500>> ELSE p.step

\* the step after lines 72-79: computed from the first two records if the header
\* gave none, 0.1524 if there is still none
FallbackStep(p, depthCurve) ==
  IF /\ p.step = NULL /\ Len(p.data) > 1
     /\ Get(p.data[1], depthCurve) # UNDEF /\ Get(p.data[2], depthCurve) # UNDEF
  THEN RAbs(RSub(Get(p.data[2], depthCurve), Get(p.data[1], depthCurve)))
  ELSE IF p.step = NULL THEN <<381, 2500>> ELSE p.step

\* mutant: only the curve list is required
IsInvalidFormatMut(p) == Len(p.curves) = 0

\* the error thrown if no curve or no record was found
IsInvalidFormat(p) == Len(p.curves) = 0 \/ Len(p.data) = 0

\* the LasData returned after the loop (p is valid)
ParsedLasData(p) ==
  LET depthCurve == p.curves[1]
  IN [wellName |-> p.wellName,
      step |-> RAbs(FallbackStep(p, depthCurve)),
      curves |-> FinalCurves(p.curves),
      data |-> p.data,
      depthCurveName |-> depthCurve]

----------------------------------------------------------------------------
(* Inputs *)

MaxLen == 4
MaxShort == 3
MaxRaw == 3

\* logs of at most n records in file order, depths ascending: the first record
\* is at depth z0, each other one dz deeper than the previous one; a record has
\* the amplitude curve cbl with a value of amps, or lacks it
RECURSIVE Logs(_, _, _, _, _)
Logs(n, z0, dzs, amps, cbl) ==
  IF n = 0 THEN {<<>>}
  ELSE LET shorter == Logs(n - 1, z0, dzs, amps, cbl)
           full == {l \in shorter : Len(l) = n - 1}
           next(l, dz) == IF Len(l) = 0 THEN z0 ELSE l[Len(l)]["DEPT"][1] + dz
       IN shorter \cup
          {Append(l, ("DEPT" :> Num(next(l, dz))) @@ (cbl :> a)) :
              l \in full, dz \in dzs, a \in amps}
          \cup
          {Append(l, ("DEPT" :> Num(next(l, dz)))) : l \in full, dz \in dzs}

\* logs of at most n records in any order, with any depth of zs
RECURSIVE RawLogs(_, _, _, _)
RawLogs(n, zs, amps, cbl) ==
  IF n = 0 THEN {<<>>}
  ELSE LET shorter == RawLogs(n - 1, zs, amps, cbl)
           full == {l \in shorter : Len(l) = n - 1}
       IN shorter \cup
          {Append(l, ("DEPT" :> Num(z)) @@ (cbl :> a)) : l \in full, z \in zs, a \in amps}
          \cup
          {Append(l, ("DEPT" :> Num(z))) : l \in full, z \in zs}

LasOf(curves, step, data) ==
  [wellName |-> "Pozo", step |-> Num(step), curves |-> curves, data |-> data,
   depthCurveName |-> curves[1]]

Capa(top, base) == [wellName |-> "Capa", top |-> Num(top), base |-> Num(base)]

Form(layers, toc, altura) == [layers |-> layers, toc |-> Num(toc), altura |-> Num(altura)]

\* sorted logs of up to n samples
LasInputs(n) ==
  {LasOf(<<"DEPT", "CBL">>, 1, data) :
      data \in Logs(n, 1, {1, 2}, {Num(2), Num(3), Num(4)}, "CBL")}

FormInputs == {Form(<<Capa(2, 3)>>, 2, 3)}

\* short logs around depth 1000 and the requests that exercise the scores; a
\* dataset of one record with step 0, as parseLasFile returns it for STEP : 0
ScoreLasInputs(n) ==
  {LasOf(<<"DEPT", "CBL">>, step, data) :
      step \in {5},
      data \in Logs(n, 1000, {5}, {Num(1), Num(2), Num(3), Num(4), Num(7)}, "CBL")}
  \cup {LasOf(<<"DEPT", "CBL">>, 0, <<("DEPT" :> Num(1000)) @@ ("CBL" :> Num(4))>>)}

\* requests with and without a requested TOC, and one without an annulus height
ScoreFormInputs ==
  {Form(<<>>, toc, altura) :
      toc \in {0, 959, 960, 990, 999, 1000, 1001, 1040, 1041}, altura \in {4, 50}}
  \cup {Form(<<>>, 990, 0)}

\* unsorted logs with depths and amplitudes the strict filter removes, and a
\* dataset without any amplitude curve
RawLasInputs(n) ==
  {LasOf(curves, 1, data) :
      curves \in {<<"DEPT", "CBL">>, <<"DEPT", "GR">>},
      data \in RawLogs(n, {0, 1, 2}, {NAN, Num(-1), Num(2), Num(4)}, "CBL")}

RawFormInputs == {Form(<<Capa(1, 2)>>, 2, 3)}

MaxLayerLen == 4
MaxRows == 2

\* logs sampled every 1 or 2 depth units under a declared step of 2
LayerLasInputs(n) ==
  {LasOf(<<"DEPT", "CBL">>, 2, data) :
      data \in Logs(n, 1, {1, 2}, {Num(1), Num(4)}, "CBL")}

\* one or two layers: regular, empty, overlapping, base = top and base < top
LayerFormInputs ==
  {Form(layers, 2, 3) :
      layers \in {<<Capa(1, 4)>>, <<Capa(3, 3)>>, <<Capa(3, 2)>>,
                  <<Capa(1, 4), Capa(6, 7)>>, <<Capa(1, 3), Capa(4, 5)>>,
                  <<Capa(2, 2), Capa(4, 5)>>, <<Capa(4, 3), Capa(1, 3)>>,
                  <<Capa(1, 4), Capa(4, 5), Capa(7, 8)>>}}

\* the lines of section W: no STEP line, a STEP line with a value after the colon
\* (positive, negative, zero, a lone sign, none), STEP with the value before the
\* colon, STEP.M
WellSections ==
  {<<>>,
   <<<<"WELL.", "P1", ":">>>>,
   <<<<"STEP", ":", "2">>>>,
   <<<<"STEP", ":", "-2">>>>,
   <<<<"STEP", ":", "0">>>>,
   <<<<"STEP", ":", "-">>>>,
   <<<<"STEP", "2", ":", "step">>>>,
   <<<<"STEP.M", "2", ":", "step">>>>}

\* the lines of section C: none, depth and amplitude, a mnemonic declared twice,
\* both candidate amplitude curves, no amplitude curve
CurveSections ==
  {<<>>,
   <<<<"DEPT.M", ":">>, <<"CBL.MV", ":">>>>,
   <<<<"DEPT.M", ":">>, <<"CBL.MV", ":">>, <<"DEPT.M", ":">>>>,
   <<<<"DEPT.M", ":">>, <<"CBL.MV", ":">>, <<"AMP3FT.MV", ":">>>>,
   <<<<"DEPT.M", ":">>, <<"GR.API", ":">>>>}

\* the lines of section A: rows of one, two and three tokens
Rows ==
  {<<"100.0", "2">>, <<"100.1524", "4">>, <<"x", "-1">>, <<"100.1524">>,
   <<"100.0", "4", "3">>}

RECURSIVE RowsUpTo(_)
RowsUpTo(n) ==
  IF n = 0 THEN {<<>>}
  ELSE LET shorter == RowsUpTo(n - 1)
       IN shorter \cup {Append(a, row) : a \in {b \in shorter : Len(b) = n - 1}, row \in Rows}

\* what follows the lines of section W: nothing, or a blank line, a comment, a
\* section marker without a letter, and a version section with a STEP line
Interludes ==
  {<<>>, <<<<>>, <<"#", "c">>, <<"~">>, <<"~V">>, <<"STEP", ":", "4">>>>}

LasFiles(n) ==
  {<<<<"~W">>>> \o w \o mid \o <<<<"~C">>>> \o c \o <<<<"~A">>>> \o a :
      w \in WellSections, mid \in Interludes, c \in CurveSections,
      a \in RowsUpTo(n)}

ParseFormInputs == {Form(<<Capa(100, 101)>>, 100, 3)}

MaxTocLen == 3

\* unsorted logs with few valid amplitude samples: a record has a depth the
\* filter removes (0) or keeps (1, 3), and no amplitude, an amplitude the filter
\* removes (NaN, -1) or one below the TOC threshold
TocLasInputs(n) ==
  {LasOf(<<"DEPT", "CBL">>, 1, data) :
      data \in RawLogs(n, {0, 1, 3}, {NAN, Num(-1), Num(2)}, "CBL")}

TocFormInputs == {Form(<<>>, 2, 3)}

MaxGapLen == 4

\* logs of at most n records at depths 1, 2, ...: a record has the amplitude 2 or
\* none, and a NEU value that is NaN, 0 or 6
RECURSIVE GapLogs(_)
GapLogs(n) ==
  IF n = 0 THEN {<<>>}
  ELSE LET shorter == GapLogs(n - 1)
           full == {l \in shorter : Len(l) = n - 1}
           base(v) == ("DEPT" :> Num(n)) @@ ("NEU" :> v)
           neus == {NAN, Num(0), Num(6)}
       IN shorter \cup {Append(l, base(v) @@ ("CBL" :> Num(2))) : l \in full, v \in neus}
                  \cup {Append(l, base(v)) : l \in full, v \in neus}

\* datasets whose curve list has NEU and datasets whose curve list lacks it
GapLasInputs(n) ==
  {LasOf(curves, 1, data) :
      curves \in {<<"DEPT", "CBL">>, <<"DEPT", "CBL", "NEU">>},
      data \in GapLogs(n)}

GapFormInputs == {Form(<<>>, 2, 3)}

----------------------------------------------------------------------------
(* The caller: holds one LasData object and invokes analyzeData on it.     *)
(* orig is lasData.data as it was when the last invocation started, first  *)
(* the result of the first invocation once a second one has been made.     *)

NoResult == [status |-> "none"]

\* lasData === null
NoLasData == [null |-> TRUE]

\* no file is being read
NoParser == [status |-> "idle"]

Start(lasInputs, formInputs) ==
  /\ lasData \in lasInputs
  /\ args \in formInputs
  /\ orig = lasData.data
  /\ calls = 0
  /\ result = NoResult
  /\ first = NoResult
  /\ parser = NoParser

Init == Start(LasInputs(MaxLen), FormInputs)

InitScore == Start(ScoreLasInputs(MaxShort), ScoreFormInputs)

InitRaw == Start(RawLasInputs(MaxRaw), RawFormInputs)

InitLayer == Start(LayerLasInputs(MaxLayerLen), LayerFormInputs)

InitToc == Start(TocLasInputs(MaxTocLen), TocFormInputs)

InitGap == Start(GapLasInputs(MaxGapLen), GapFormInputs)

Invoke ==
  /\ result' = analyzeData(lasData, args.layers, args.toc, args.altura)
  /\ lasData' = [lasData EXCEPT !.data = result'.data]
  /\ orig' = lasData.data
  /\ calls' = calls + 1
  /\ UNCHANGED <<args, parser>>

\* the first invocation
Analyze ==
  /\ lasData # NoLasData
  /\ calls = 0
  /\ Invoke
  /\ UNCHANGED first

\* a second invocation with the same LasData object and the same arguments
AnalyzeAgain ==
  /\ calls = 1
  /\ Invoke
  /\ first' = result

Next == Analyze \/ AnalyzeAgain

Spec == Init /\ [][Next]_vars

SpecScore == InitScore /\ [][Next]_vars

SpecRaw == InitRaw /\ [][Next]_vars

SpecLayer == InitLayer /\ [][Next]_vars

SpecToc == InitToc /\ [][Next]_vars

SpecGap == InitGap /\ [][Next]_vars

----------------------------------------------------------------------------
(* Loading a file: parseLasFile reads the lines one by one, then returns the *)
(* LasData, which becomes the caller's lasData, or throws.                   *)

InitParse ==
  /\ lasData = NoLasData
  /\ args \in ParseFormInputs
  /\ orig = <<>>
  /\ calls = 0
  /\ result = NoResult
  /\ first = NoResult
  /\ parser \in {[status |-> "reading", lines |-> file, i |-> 1,
                   currentSection |-> "", wellName |-> "Pozo Desconocido",
                   step |-> NULL, curves |-> <<>>, data |-> <<>>] :
                     file \in LasFiles(MaxRows)}

\* the line the loop is at
Line == parser.lines[parser.i]

InLoop == parser.status = "reading" /\ parser.i <= Len(parser.lines)

\* the loop goes on to the next line with the parser's variables as in p
Continue(p) ==
  /\ parser' = [p EXCEPT !.i = @ + 1]
  /\ UNCHANGED <<lasData, orig, args, calls, result, first>>

\* an empty line or a comment
SkipLine ==
  /\ InLoop
  /\ IsSkipped(Line)
  /\ Continue(parser)

\* a section marker: a known letter opens its section, another one none
SectionLine ==
  /\ InLoop
  /\ ~IsSkipped(Line) /\ IsSectionLine(Line)
  /\ Continue([parser EXCEPT !.currentSection =
                 IF SectionHeader(Line) = "" THEN @
                 ELSE IF SectionHeader(Line) \in {"W", "P", "C", "A"}
                      THEN SectionHeader(Line) ELSE ""])

IsContent == InLoop /\ ~IsSkipped(Line) /\ ~IsSectionLine(Line)

WellInfoLine ==
  /\ IsContent /\ parser.currentSection = "W"
  /\ Continue(WellInfo(parser, Line))

CurveInfoLine ==
  /\ IsContent /\ parser.currentSection = "C"
  /\ Continue(CurveInfo(parser, Line))

AsciiLogDataLine ==
  /\ IsContent /\ parser.currentSection = "A"
  /\ Continue(AsciiLogData(parser, Line))

\* a line of section P or of no section
OtherLine ==
  /\ IsContent /\ parser.currentSection \notin {"W", "C", "A"}
  /\ Continue(parser)

AfterLoop == parser.status = "reading" /\ parser.i > Len(parser.lines)

\* the format error: handleLasFile catches it and sets lasData to null
ThrowInvalidFormat ==
  /\ AfterLoop /\ IsInvalidFormat(parser)
  /\ parser' = [parser EXCEPT !.status = "error"]
  /\ lasData' = NoLasData
  /\ UNCHANGED <<orig, args, calls, result, first>>

\* the return: handleLasFile stores the LasData
Return ==
  /\ AfterLoop /\ ~IsInvalidFormat(parser)
  /\ parser' = [parser EXCEPT !.status = "returned"]
  /\ lasData' = ParsedLasData(parser)
  /\ orig' = lasData'.data
  /\ UNCHANGED <<args, calls, result, first>>

NextParse ==
  \/ SkipLine \/ SectionLine \/ WellInfoLine \/ CurveInfoLine \/ AsciiLogDataLine
  \/ OtherLine \/ ThrowInvalidFormat \/ Return \/ Analyze \/ AnalyzeAgain

SpecParse == InitParse /\ [][NextParse]_vars

TypeOK ==
  /\ calls \in 0..2
  /\ result.status \in {"none", "ok", "error"}
  /\ first.status \in {"none", "ok", "error"}
  /\ parser.status \in {"idle", "reading", "returned", "error"}
  /\ lasData # NoLasData => Len(lasData.data) = Len(orig)

----------------------------------------------------------------------------
(* Claims *)

\* C1: analyzeData never modifies the records of the LasData it is given: after
\* any call every record of lasData.data has the keys and values it had before
\* the call, and lasData.data keeps its order.
C1_CallerRecordsUnchanged == calls > 0 => lasData.data = orig

\* C2: two successive calls with the same LasData object and the same arguments
\* return the same detected TOC, KPI map, interval list and layer analysis.
C2_SecondCallSameResult ==
  calls = 2 =>
    /\ result.status = first.status
    /\ result.status = "ok" =>
         /\ result.kpis.TOC_Encontrado = first.kpis.TOC_Encontrado
         /\ result.kpis = first.kpis
         /\ result.intervals = first.intervals
         /\ result.layerAnalysis = first.layerAnalysis

Ok == result.status = "ok"

Has(field) == Ok /\ field \in DOMAIN result.kpis

\* C3 as claimed: with both requests positive the reported difference is
\* found - requested and T is 1.0 for a reported difference in [0, 40], 0.9 above
\* 40, 0.8 in [-40, 0) and 0.0 below -40.
C3_TScoreByReportedDifference ==
  (Ok /\ Gt(args.toc, Num(0)) /\ Gt(args.altura, Num(0))) =>
    LET dif == result.kpis.Diferencia_TOC
        T100 == result.kpis.TOC_Evaluacion_T
    IN /\ dif = RSub(result.kpis.TOC_Encontrado, args.toc)
       /\ (Ge(dif, Num(0)) /\ Le(dif, Num(40))) => T100 = Num(100)
       /\ Gt(dif, Num(40)) => T100 = Num(90)
       /\ (Ge(dif, Num(-40)) /\ Lt(dif, Num(0))) => T100 = Num(80)
       /\ Lt(dif, Num(-40)) => T100 = Num(0)

\* C3 as amended: with both requests positive the reported difference is
\* found - requested, and T follows requested - found, the reported difference
\* negated: 1.0 for a reported difference in [-40, 0], 0.9 below -40, 0.8 in
\* (0, 40] and 0.0 above 40.
C3_TScoreByRequestedMinusFound ==
  (Ok /\ Gt(args.toc, Num(0)) /\ Gt(args.altura, Num(0))) =>
    LET dif == result.kpis.Diferencia_TOC
        T100 == result.kpis.TOC_Evaluacion_T
    IN /\ dif = RSub(result.kpis.TOC_Encontrado, args.toc)
       /\ (Ge(dif, Num(-40)) /\ Le(dif, Num(0))) => T100 = Num(100)
       /\ Lt(dif, Num(-40)) => T100 = Num(90)
       /\ (Gt(dif, Num(0)) /\ Le(dif, Num(40))) => T100 = Num(80)
       /\ Gt(dif, Num(40)) => T100 = Num(0)

C3_Witness ==
  /\ Has("TOC_Evaluacion_T")
  /\ result.kpis.Diferencia_TOC = Num(41)
  /\ result.kpis.TOC_Evaluacion_T = Num(0)

BadPlusMedium == RAdd(result.kpis.Bad_Meters, result.kpis.Medium_Meters)

Scenario ==
  /\ Ok
  /\ result.kpis.TOC_Encontrado = Num(1000)
  /\ args.toc = Num(990)
  /\ args.altura = Num(50)
  /\ BadPlusMedium = Num(5)

\* C4: found TOC 1000, requested TOC 990, requested annulus height 50 and 5
\* bad+medium meters give T = 0.8, A = 0.9 and a Cement Score of 87.
C4_ScoreComposition ==
  Scenario =>
    /\ result.kpis.TOC_Evaluacion_T = Num(80)
    /\ result.kpis.Adherencia_A = Num(90)
    /\ result.kpis.Cement_Score = Num(87)

C4_Witness == Scenario /\ Has("Cement_Score")

\* the amplitude of a cemented record as the call left it
CementedAmp(i) == Get(result.data[result.cemented[i]], result.cblCurve)

CementedCat(i) == Category(result.data[result.cemented[i]])

CementedDepth(i) == Get(result.data[result.cemented[i]], result.depthCurveName)

C6_NoAmplitudeNoCategory ==
  Ok =>
    /\ \A i \in 1..Len(result.cemented) :
          ~IsNum(CementedAmp(i)) => CementedCat(i) = "none"
    /\ result.kpis.Total_Meters =
          RMul(Num(Cardinality({i \in 1..Len(result.cemented) : IsNum(CementedAmp(i))})),
               result.step)

\* the depth-sorted records with a valid amplitude, as the last call found them
Valid == SelectSeq(result.logIdx, LAMBDA r : IsNum(Get(orig[r], result.cblCurve)))

ValidAmp(i) == Get(orig[Valid[i]], result.cblCurve)

ValidDepth(i) == Get(orig[Valid[i]], result.depthCurveName)

Below(i) == Lt(ValidAmp(i), Num(TOC_AMPLITUD_UMBRAL))

\* samples i..j of Valid are a maximal run of amplitudes below the TOC threshold
IsRun(i, j) ==
  /\ i <= j
  /\ \A k \in i..j : Below(k)
  /\ i = 1 \/ ~Below(i - 1)
  /\ j = Len(Valid) \/ ~Below(j + 1)

Qualifies(i, j) ==
  IsRun(i, j) /\ Ge(RSub(ValidDepth(j), ValidDepth(i)), Num(TOC_LONGITUD_MINIMA_M))

SomeRunQualifies == \E i, j \in 1..Len(Valid) : Qualifies(i, j)

\* C7: if some maximal below-threshold run of the valid samples spans at least
\* the minimum run length, the detected TOC is the depth of the first sample of
\* the first such run, whatever shorter runs precede it.
C7_TocRunDetection ==
  Ok =>
    \A i, j \in 1..Len(Valid) :
      (Qualifies(i, j) /\ ~\E i2, j2 \in 1..Len(Valid) : i2 < i /\ Qualifies(i2, j2))
        => result.kpis.TOC_Encontrado = ValidDepth(i)

C7_Witness ==
  /\ Ok
  /\ \E i, j \in 1..Len(Valid) :
        /\ Qualifies(i, j)
        /\ \E i1, j1 \in 1..Len(Valid) : j1 < i /\ IsRun(i1, j1) /\ ~Qualifies(i1, j1)
        /\ result.kpis.TOC_Encontrado = ValidDepth(i)

Gradient(i) == RSub(ValidAmp(i), ValidAmp(i - 1))

\* the second sample of the earliest pair with the minimal signed difference
IsSteepest(i) ==
  /\ \A k \in 2..Len(Valid) : Le(Gradient(i), Gradient(k))
  /\ \A k \in 2..(i - 1) : Lt(Gradient(i), Gradient(k))

\* C8: if no run qualifies and there are at least two valid samples, the
\* detected TOC is the depth of the second sample of the earliest consecutive
\* pair whose difference (next - previous) is minimal.
C8_TocGradientFallback ==
  (Ok /\ ~SomeRunQualifies /\ Len(Valid) >= 2) =>
    \E i \in 2..Len(Valid) :
       IsSteepest(i) /\ result.kpis.TOC_Encontrado = ValidDepth(i)

C8_Witness ==
  /\ Ok /\ ~SomeRunQualifies
  /\ \E i \in 3..Len(Valid) :
        /\ IsSteepest(i)
        /\ \E k \in (i + 1)..Len(Valid) : Gradient(k) = Gradient(i)
        /\ Lt(Gradient(i), Num(0))
        /\ result.kpis.TOC_Encontrado = ValidDepth(i)

\* cemented records i..j are a maximal run of one category
IsCategoryRun(i, j) ==
  /\ i <= j
  /\ \A k \in i..j : CementedCat(k) = CementedCat(i)
  /\ i = 1 \/ CementedCat(i - 1) # CementedCat(i)
  /\ j = Len(result.cemented) \/ CementedCat(j + 1) # CementedCat(i)

RunLength(i, j) == RSub(CementedDepth(j), CementedDepth(i))

\* Length >= INTERVALO_LONGITUD_MINIMA_FT x 0.3048
LongEnough(i, j) ==
  LET len == RunLength(i, j)
  IN len[1] * 10000 >= INTERVALO_LONGITUD_MINIMA_FT * 3048 * len[2]

Reportable(i, j) ==
  IsCategoryRun(i, j) /\ CementedCat(i) \in {"Malo", "Medio"} /\ LongEnough(i, j)

IntervalOf(i, j) ==
  [Calidad |-> CementedCat(i), Tope |-> CementedDepth(i), Base |-> CementedDepth(j),
   Longitud |-> RunLength(i, j)]

\* C9: the interval list is exactly the maximal same-category runs of the
\* cemented records, in depth order, that are "Malo" or "Medio" and at least the
\* minimum length long, with Top, Base and Length = Base - Top of the run.
C9_IntervalList ==
  Ok =>
    LET n == Len(result.cemented)
        runs == {<<i, j>> \in (1..n) \X (1..n) : Reportable(i, j)}
    IN /\ {result.intervals[k] : k \in 1..Len(result.intervals)} =
             {IntervalOf(r[1], r[2]) : r \in runs}
       /\ Len(result.intervals) = Cardinality(runs)
       /\ \A k \in 1..(Len(result.intervals) - 1) :
             Lt(result.intervals[k].Base, result.intervals[k + 1].Tope)

C9_Witness ==
  /\ Ok
  /\ Len(result.intervals) >= 1
  /\ \E i, j \in 1..Len(result.cemented) :
        IsCategoryRun(i, j) /\ CementedCat(i) = "Bueno" /\ LongEnough(i, j)

InWindow(top, base) ==
  {i \in 1..Len(result.cemented) :
      Le(top, CementedDepth(i)) /\ Le(CementedDepth(i), base)}

WindowFirst(W) == CHOOSE i \in W : \A j \in W : i <= j

WindowLast(W) == CHOOSE i \in W : \A j \in W : j <= i

\* (last depth in window - first depth in window) + step
WindowLength(W) ==
  RAdd(RSub(CementedDepth(WindowLast(W)), CementedDepth(WindowFirst(W))), result.step)

\* (count of Malo + count of Medio) x step
BadMeters(W) ==
  RMul(Num(Cardinality({i \in W : CementedCat(i) \in {"Malo", "Medio"}})), result.step)

\* (1 - bad / length) clipped to [0, 1], x 100 (bad >= 0 and length > 0)
AdhesionOf(bad, length) ==
  IF Ge(bad, length) THEN Num(0)
  ELSE RDiv(RMul(Num(100), RSub(length, bad)), length)

\* C11: every input layer has a layer result computed over the cemented records
\* with depth in [top, base]: an empty window gives adhesion NaN and length 0,
\* another one length = (last depth - first depth) + step and adhesion =
\* 1 - ((count of Malo + count of Medio) x step) / length clipped to [0, 1],
\* reported x 100.
C11_LayerWindow ==
  Ok =>
    /\ Len(result.layerAnalysis) = Len(args.layers)
    /\ \A k \in 1..Len(args.layers) :
         LET capa == args.layers[k]
             item == result.layerAnalysis[k]
             W == InWindow(capa.top, capa.base)
         IN /\ item.Tope = capa.top /\ item.Base = capa.base
            /\ IF W = {}
               THEN item.Adherencia = NAN /\ item.Longitud = Num(0)
               ELSE /\ item.Longitud = WindowLength(W)
                    /\ item.Adherencia = AdhesionOf(BadMeters(W), WindowLength(W))

C11_Witness ==
  /\ Ok
  /\ \E k \in 1..Len(args.layers) :
        /\ InWindow(args.layers[k].top, args.layers[k].base) = {}
        /\ result.layerAnalysis[k].Adherencia = NAN
  /\ \E k \in 1..Len(args.layers) :
        /\ Gt(result.layerAnalysis[k].Adherencia, Num(0))
        /\ Lt(result.layerAnalysis[k].Adherencia, Num(100))
  /\ \E k \in 1..Len(args.layers) :
        LET W == InWindow(args.layers[k].top, args.layers[k].base)
        IN W # {} /\ Gt(BadMeters(W), WindowLength(W))
           /\ result.layerAnalysis[k].Adherencia = Num(0)

Degenerate(capa) == Le(capa.base, capa.top)

\* C12: a layer with base <= top (base = top at the depth of a cemented record
\* included) never makes analyzeData fail and is an empty window: its length is
\* 0, its adhesion NaN, and Apnz is what the other layers alone give.
C12_DegenerateLayerIsEmpty ==
  calls > 0 =>
    /\ ~Ok => (result.error = "NoValidData" /\ Len(orig) = 0)
    /\ Ok => \A k \in 1..Len(args.layers) :
          Degenerate(args.layers[k]) =>
            /\ result.layerAnalysis[k].Longitud = Num(0)
            /\ result.layerAnalysis[k].Adherencia = NAN
    /\ Ok =>
       LET proper == SelectSeq(args.layers, LAMBDA capa : ~Degenerate(capa))
           windows == [k \in 1..Len(proper) |->
                         LayerWindow(result.data, result.cemented,
                                     result.depthCurveName, proper[k])]
       IN result.kpis.Apnz_Percentage =
             AggregateAdhesion(SumWindows(result.data, result.depthCurveName,
                                          result.step, windows, 1, Num(0), Num(0)))

RECURSIVE SumSeq(_)
SumSeq(s) == IF Len(s) = 0 THEN Num(0) ELSE RAdd(Head(s), SumSeq(Tail(s)))

\* (1 - sum of bad meters / sum of lengths) x 100 clipped to [0, 100] over the
\* non-empty windows, undefined when the sum of lengths is 0
Overall(windows) ==
  LET nonEmpty == SelectSeq(windows, LAMBDA W : W # {})
      bad == SumSeq([k \in 1..Len(nonEmpty) |-> BadMeters(nonEmpty[k])])
      length == SumSeq([k \in 1..Len(nonEmpty) |-> WindowLength(nonEmpty[k])])
  IN IF length = Num(0) THEN UNDEF
     ELSE Clip(Num(0), Num(100), RMul(RSub(Num(1), RDiv(bad, length)), Num(100)))

SealInWindow(capa) ==
  InWindow(RMax(RSub(capa.top, Num(RANGO_SELLO_METROS)), CementedDepth(1)),
           RMin(RAdd(capa.base, Num(RANGO_SELLO_METROS)),
                CementedDepth(Len(result.cemented))))

\* C13: Apnz is (1 - (sum over the non-empty layer windows of (Malo + Medio
\* count) x step) / (sum of those windows' lengths)) x 100 clipped to [0, 100],
\* undefined exactly when the sum of lengths is 0; Asello is the same over the
\* seal windows.
C13_OverallAdhesion ==
  (Ok /\ Len(args.layers) > 0) =>
    /\ result.kpis.Apnz_Percentage =
          Overall([k \in 1..Len(args.layers) |->
                     InWindow(args.layers[k].top, args.layers[k].base)])
    /\ result.kpis.Asello_Percentage =
          Overall([k \in 1..Len(args.layers) |-> SealInWindow(args.layers[k])])

\* C14: a fatal error (format error, no compatible amplitude curve, no valid
\* data) is raised before any downstream stage has run: the parser hands over no
\* dataset and no analysis has run, the analysis leaves every input record as it
\* was, in the order it was, and returns no partial result.
C14_FatalErrorsLeaveNoPartialState ==
  /\ parser.status = "error" => (lasData = NoLasData /\ calls = 0 /\ result = NoResult)
  /\ (calls > 0 /\ result.status = "error") =>
        /\ result.error \in {"NoCompatibleCurve", "NoValidData"}
        /\ lasData.data = orig
        /\ DOMAIN result = {"status", "error", "data"}

C14_Witness ==
  /\ parser.status = "returned"
  /\ calls = 1
  /\ result.status = "error" /\ result.error = "NoValidData"
  /\ Len(orig) = 2

\* the candidate names that occur in the dataset's curve list
Compatible == {k \in 1..Len(NOMBRES_CURVA_CBL) : Includes(lasData.curves, NOMBRES_CURVA_CBL[k])}

\* C15: the amplitude curve of the analysis is the first name of the candidate
\* list that occurs in the dataset's curve list, whatever the order of the
\* dataset's curves, and analyzeData fails with the no-compatible-curve error
\* iff no candidate name occurs in it.
C15_FirstCandidateWins ==
  calls > 0 =>
    /\ (result.status = "error" /\ result.error = "NoCompatibleCurve") <=> Compatible = {}
    /\ Ok => \E k \in Compatible :
                /\ result.cblCurve = NOMBRES_CURVA_CBL[k]
                /\ \A j \in Compatible : k <= j

C15_Witness ==
  /\ Ok
  /\ Cardinality(Compatible) = 2
  /\ result.cblCurve = NOMBRES_CURVA_CBL[1]
  /\ \E i, j \in 1..Len(lasData.curves) :
        /\ i < j
        /\ lasData.curves[i] = NOMBRES_CURVA_CBL[2]
        /\ lasData.curves[j] = NOMBRES_CURVA_CBL[1]

\* the file has been read to its end
FileRead == parser.status # "idle" /\ parser.i > Len(parser.lines)

Returned == parser.status = "returned"

\* a line that opens a section: ~ and a letter
OpensSection(line) == line \in {<<"~W">>, <<"~C">>, <<"~A">>, <<"~V">>}

\* the section in force at line k of the file: the letter of the last line
\* before it that opens a section, "" if there is none or the letter is not one
\* of W, C and A
RECURSIVE SectionInForce(_)
SectionInForce(k) ==
  IF k = 1 THEN ""
  ELSE LET prev == parser.lines[k - 1]
       IN CASE prev = <<"~W">> -> "W"
            [] prev = <<"~C">> -> "C"
            [] prev = <<"~A">> -> "A"
            [] prev = <<"~V">> -> ""
            [] OTHER -> SectionInForce(k - 1)

\* a line that is not blank, not a comment and does not start with ~
IsText(line) == line # <<>> /\ line[1] \notin {"#", "~", "~W", "~C", "~A", "~V"}

\* the text lines of a section, in file order
RECURSIVE TextLinesOf(_, _)
TextLinesOf(section, k) ==
  IF k = 0 THEN <<>>
  ELSE IF IsText(parser.lines[k]) /\ SectionInForce(k) = section
       THEN Append(TextLinesOf(section, k - 1), parser.lines[k])
       ELSE TextLinesOf(section, k - 1)

LinesOfW == TextLinesOf("W", Len(parser.lines))

LinesOfC == TextLinesOf("C", Len(parser.lines))

LinesOfA == TextLinesOf("A", Len(parser.lines))

\* a line of the form STEP <anything> : <number>
DeclaresStep(line) ==
  /\ Head(line) = "STEP"
  /\ Len(line) >= 3
  /\ line[Len(line) - 1] = ":"
  /\ IsNum(parseFloat(line[Len(line)]))

DeclaredStep(line) == parseFloat(line[Len(line)])

FileDepth(k) == Get(lasData.data[k], lasData.depthCurveName)

\* C17: when no STEP line was consumed, the step is the absolute difference of
\* the depths of the first two records in file order (100.0 and 100.1524 give
\* 0.1524), and 0.1524 when there are fewer than two records.
C17_FallbackStep ==
  (Returned /\ parser.step = NULL) =>
    IF Len(lasData.data) >= 2
    THEN LET d == RSub(FileDepth(2), FileDepth(1))
         IN lasData.step = IF Lt(d, Num(0)) THEN RSub(Num(0), d) ELSE d
    ELSE lasData.step = RDiv(Num(1524), Num(10000))

C17_Witness ==
  /\ Returned /\ parser.step = NULL
  /\ Len(lasData.data) = 2
  /\ FileDepth(1) = <<250381, 2500>>
  /\ FileDepth(2) = Num(100)
  /\ lasData.step = <<381, 2500>>

\* C18: every returned dataset has a strictly positive, well-defined step, never
\* 0 and never NaN.
C18_StepPositive ==
  Returned => (IsNum(lasData.step) /\ Gt(lasData.step, Num(0)))

\* the mnemonics declared in section C, in file order
Declared == [k \in 1..Len(LinesOfC) |-> BeforeDot(Head(LinesOfC[k]))]

FirstSeen(m) == CHOOSE k \in 1..Len(Declared) :
                  Declared[k] = m /\ \A j \in 1..(k - 1) : Declared[j] # m

\* C19: the returned curve list has every mnemonic declared in section C
\* exactly once, ordered by first appearance.
C19_CurveDedup ==
  Returned =>
    /\ {lasData.curves[k] : k \in 1..Len(lasData.curves)} =
          {Declared[k] : k \in 1..Len(Declared)}
    /\ \A a, b \in 1..Len(lasData.curves) :
          a < b => FirstSeen(lasData.curves[a]) < FirstSeen(lasData.curves[b])

C19_Witness ==
  /\ Returned
  /\ Len(Declared) = 3 /\ Declared[1] = Declared[3]
  /\ lasData.curves = <<Declared[1], Declared[2]>>

\* the rows of section A with n tokens, in file order
RowsOfLength(n) == SelectSeq(LinesOfA, LAMBDA row : Len(row) = n)

\* the last column of a row that belongs to curve m
ColumnOf(m) == CHOOSE k \in 1..Len(Declared) :
                 Declared[k] = m /\ \A j \in (k + 1)..Len(Declared) : Declared[j] # m

\* the records are those of the rows of n tokens, one per row and in file
\* order, each curve with the value of its column
RecordsAreRowsOfLength(n) ==
  LET rows == RowsOfLength(n)
  IN /\ Len(parser.data) = Len(rows)
     /\ \A k \in 1..Len(rows) :
          /\ DOMAIN parser.data[k] = {Declared[j] : j \in 1..Len(Declared)}
          /\ \A m \in DOMAIN parser.data[k] :
                parser.data[k][m] = parseFloat(rows[k][ColumnOf(m)])

\* C20 as claimed: a line of section A produces a record iff its token count is
\* the curve count of the returned dataset; any other row produces none and
\* leaves the other rows' records as they are.
C20_RowsMatchReturnedCurveCount ==
  Returned => Len(lasData.data) = Len(RowsOfLength(Len(lasData.curves)))

\* C20 as amended: a line of section A produces a record iff its token count is
\* the number of curve mnemonics declared in section C, a mnemonic declared
\* twice counted twice; any other row (one token fewer, one more) produces no
\* record and no error and leaves the other rows' records as they are.
C20_RowsMatchDeclaredCurveCount ==
  FileRead => (Len(Declared) = 0 /\ parser.data = <<>>)
              \/ (Len(Declared) > 0 /\ RecordsAreRowsOfLength(Len(Declared)))

C20_Witness ==
  /\ Returned
  /\ Len(lasData.data) = 1
  /\ \E k \in 1..Len(LinesOfA) : Len(LinesOfA[k]) = Len(Declared) - 1
  /\ \E k \in 1..Len(LinesOfA) : Len(LinesOfA[k]) = Len(Declared)

\* the row of section A that produced the k-th record
RowOfRecord(k) == RowsOfLength(Len(Declared))[k]

\* C21: in every returned record the value under the i-th name of the curve
\* list is the number read from the i-th token of its row; the depth curve's
\* value is the row's first token, also when a mnemonic is declared twice.
C21_PositionalMapping ==
  Returned =>
    \A k \in 1..Len(lasData.data) :
      /\ \A i \in 1..Len(lasData.curves) :
            Get(lasData.data[k], lasData.curves[i]) = parseFloat(RowOfRecord(k)[i])
      /\ Get(lasData.data[k], lasData.depthCurveName) = parseFloat(RowOfRecord(k)[1])

\* parseLasFile has thrown the format error
Failed == parser.status = "error"

\* C22: parseLasFile throws the format error iff section C declared no curve or
\* no row of section A produced a record; otherwise it returns a dataset with
\* at least one curve and at least one record.
C22_FormatError ==
  (Failed \/ Returned) =>
    /\ Failed <=> (Len(Declared) = 0 \/ Len(RowsOfLength(Len(Declared))) = 0)
    /\ Failed => lasData = NoLasData
    /\ Returned => (Len(lasData.curves) >= 1 /\ Len(lasData.data) >= 1)

\* the error for a file that declares curves and has rows, none with one token
\* per curve
C22_Witness ==
  /\ Failed
  /\ Len(Declared) = 2
  /\ Len(LinesOfA) = 2
  /\ RowsOfLength(2) = <<>>

\* what the parser has collected
Collected(p) == <<p.wellName, p.step, p.curves, p.data>>

\* C23: the current section changes only at a line that opens a section and
\* otherwise persists; a text line is interpreted by the section in force
\* alone: in W only the well name and the step may change, in C only the curve
\* list, in A only the records, under no section or another letter nothing;
\* blank lines, comments and section markers change nothing that is collected.
C23_SectionStateMachine ==
  [][(parser'.status = "reading" /\ parser'.i = parser.i + 1) =>
       LET line == parser.lines[parser.i]
           section == SectionInForce(parser.i)
       IN /\ parser.currentSection = section
          /\ parser'.currentSection = SectionInForce(parser.i + 1)
          /\ parser'.currentSection # parser.currentSection => OpensSection(line)
          /\ parser'.lines = parser.lines
          /\ ~IsText(line) => Collected(parser') = Collected(parser)
          /\ IsText(line) =>
                /\ parser'.currentSection = parser.currentSection
                /\ section = "W" =>
                      (parser'.curves = parser.curves /\ parser'.data = parser.data)
                /\ section = "C" =>
                      /\ parser'.wellName = parser.wellName
                      /\ parser'.step = parser.step
                      /\ parser'.data = parser.data
                /\ section = "A" =>
                      /\ parser'.wellName = parser.wellName
                      /\ parser'.step = parser.step
                      /\ parser'.curves = parser.curves
                /\ section \notin {"W", "C", "A"} =>
                      Collected(parser') = Collected(parser)]_vars

\* a file read to its end whose STEP line under ~V left the step of section W
\* as it was
C23_Witness ==
  /\ parser.status = "reading" /\ parser.i > Len(parser.lines)
  /\ \E k \in 1..Len(parser.lines) :
        parser.lines[k] = <<"STEP", ":", "4">> /\ SectionInForce(k) = ""
  /\ parser.currentSection = "A"
  /\ parser.step = Num(2)
  /\ Len(parser.curves) = 2
  /\ Len(parser.data) = 1

\* C24: in every record of a returned dataset the value of the depth curve is
\* a real number, never absent and never NaN.
C24_DepthIsNumber ==
  Returned =>
    \A k \in 1..Len(lasData.data) :
      IsNum(Get(lasData.data[k], lasData.depthCurveName))

\* the depth and the amplitude of a record as the call found it
DepthOf(r) == Get(orig[r], result.depthCurveName)

AmpOf(r) == Get(orig[r], result.cblCurve)

\* the records that survive the strict filter: depth > 0, amplitude absent or
\* not negative
Survivors ==
  {r \in 1..Len(orig) :
     Gt(DepthOf(r), Num(0)) /\ (AmpOf(r) = UNDEF \/ Ge(AmpOf(r), Num(0)))}

\* some survivor is at depth z and none is shallower
IsShallowest(z) ==
  /\ \E r \in Survivors : DepthOf(r) = z
  /\ \A r \in Survivors : Le(z, DepthOf(r))

\* seq lists the records of set S, each once, by ascending depth
ListsByDepth(seq, S) ==
  /\ {seq[k] : k \in 1..Len(seq)} = S
  /\ Len(seq) = Cardinality(S)
  /\ \A k \in 1..(Len(seq) - 1) : Le(DepthOf(seq[k]), DepthOf(seq[k + 1]))

\* C25: with no valid amplitude sample among the filtered records, and with
\* exactly one that forms no qualifying run, the TOC is the depth of the
\* shallowest filtered record and the cemented zone is the whole filtered log.
C25_DefaultToc ==
  (Ok /\ (Len(Valid) = 0 \/ (Len(Valid) = 1 /\ ~SomeRunQualifies))) =>
    /\ IsShallowest(result.kpis.TOC_Encontrado)
    /\ ListsByDepth(result.cemented, Survivors)

\* one valid sample below the threshold, not in the shallowest record, in a log
\* given out of depth order with records the filter removes
C25_Witness ==
  /\ Ok /\ calls = 1
  /\ Len(Valid) = 1 /\ Below(1) /\ ~SomeRunQualifies
  /\ Cardinality(Survivors) = 2 /\ Len(orig) = 3
  /\ DepthOf(result.logIdx[1]) = Num(1) /\ AmpOf(result.logIdx[1]) = UNDEF
  /\ result.logIdx[1] > result.logIdx[2]
  /\ result.kpis.TOC_Encontrado = Num(1)
  /\ Len(result.cemented) = 2

\* the curves interpolate is called for
Interpolated ==
  {key \in {result.cblCurve, "CLDC", "NEU"} : Includes(lasData.curves, key)}

\* the value of a curve in the p-th cemented record before and after the call
Before(p, key) == Get(orig[result.cemented[p]], key)

After(p, key) == Get(result.data[result.cemented[p]], key)

\* the cemented positions before / after p with a valid value of the curve
ValidBefore(p, key) == {a \in 1..(p - 1) : IsNum(Before(a, key))}

ValidAfter(p, key) == {b \in (p + 1)..Len(result.cemented) : IsNum(Before(b, key))}

\* the p-th cemented record misses the curve's value inside a gap
InGap(p, key) ==
  /\ key \in Interpolated
  /\ ~IsNum(Before(p, key))
  /\ ValidBefore(p, key) # {} /\ ValidAfter(p, key) # {}

\* start + (end - start) * j / n for offset j of a gap of n
Linear(p, key) ==
  LET a == CHOOSE x \in ValidBefore(p, key) : \A y \in ValidBefore(p, key) : y <= x
      b == CHOOSE x \in ValidAfter(p, key) : \A y \in ValidAfter(p, key) : x <= y
  IN RAdd(Before(a, key),
          RDiv(RMul(RSub(Before(b, key), Before(a, key)), Num(p - a)), Num(b - a)))

\* C26: interpolation changes only the values a cemented record misses
\* strictly between two valid records of a curve of the curve list: offset j of
\* a gap of n gets start + (end - start) * j / n; valid values, missing values
\* before the first or after the last valid one, depths, other curves, curves
\* outside the curve list and records above the TOC stay as they were.
C26_InterpolationFrame ==
  Ok =>
    /\ \A r \in 1..Len(orig) :
          (\A p \in 1..Len(result.cemented) : result.cemented[p] # r)
            => result.data[r] = orig[r]
    /\ \A p \in 1..Len(result.cemented) :
          \A key \in (DOMAIN orig[result.cemented[p]]
                       \cup DOMAIN result.data[result.cemented[p]]
                       \cup Interpolated) \ {"Category"} :
            After(p, key) = IF InGap(p, key) THEN Linear(p, key) ELSE Before(p, key)

\* a gap of three in NEU (0, NaN, NaN, 6) filled with 2 and 4
C26_Witness ==
  /\ Ok /\ calls = 1
  /\ Len(result.cemented) = 4
  /\ Before(1, "NEU") = Num(0) /\ Before(4, "NEU") = Num(6)
  /\ Before(2, "NEU") = NAN /\ Before(3, "NEU") = NAN
  /\ After(2, "NEU") = Num(2) /\ After(3, "NEU") = Num(4)
  /\ Before(2, "CBL") = UNDEF /\ After(2, "CBL") = Num(2)

\* C27: on success the TOC is the depth of a filtered record, the cemented zone
\* is not empty and lists exactly the filtered records at or below the TOC by
\* ascending depth; logData lists the filtered records by ascending depth, and
\* a record of it carries a category iff its depth is at or below the TOC.
C27_CementedZone ==
  Ok =>
    LET toc == result.kpis.TOC_Encontrado
    IN /\ \E r \in Survivors : DepthOf(r) = toc
       /\ Len(result.cemented) > 0
       /\ ListsByDepth(result.cemented, {r \in Survivors : Ge(DepthOf(r), toc)})
       /\ result.cementedData = [k \in 1..Len(result.cemented) |->
                                   result.data[result.cemented[k]]]
       /\ ListsByDepth(result.logIdx, Survivors)
       /\ Len(result.logData) = Len(result.logIdx)
       /\ \A k \in 1..Len(result.logData) :
             /\ Get(result.logData[k], result.depthCurveName) = DepthOf(result.logIdx[k])
             /\ Category(result.logData[k]) # "none" <=> Ge(DepthOf(result.logIdx[k]), toc)

\* the number of cemented records of a category
Classified(cat) ==
  Cardinality({k \in 1..Len(result.cementedData) :
                 Category(result.cementedData[k]) = cat})

\* C28: Good_Meters, Medium_Meters and Bad_Meters are the numbers of cemented
\* records of each category times the step, Total_Meters is their sum, and
\* Good_Bond_Percentage is Good / Total x 100 if the total is positive, 0
\* otherwise, always within [0, 100].
C28_Meters ==
  Ok =>
    LET k == result.kpis
    IN /\ Classified("Bueno") + Classified("Medio") + Classified("Malo")
            = Len(result.cementedData)
       /\ k.Good_Meters = RMul(Num(Classified("Bueno")), lasData.step)
       /\ k.Medium_Meters = RMul(Num(Classified("Medio")), lasData.step)
       /\ k.Bad_Meters = RMul(Num(Classified("Malo")), lasData.step)
       /\ k.Total_Meters = RAdd(RAdd(k.Good_Meters, k.Medium_Meters), k.Bad_Meters)
       /\ Gt(k.Total_Meters, Num(0)) =>
             k.Good_Bond_Percentage = RMul(RDiv(k.Good_Meters, k.Total_Meters), Num(100))
       /\ ~Gt(k.Total_Meters, Num(0)) => k.Good_Bond_Percentage = Num(0)
       /\ Ge(k.Good_Bond_Percentage, Num(0)) /\ Le(k.Good_Bond_Percentage, Num(100))

\* two good records and a bad one at step 5: two thirds of 15 m are good
C28_Witness ==
  /\ Ok
  /\ Classified("Bueno") = 2 /\ Classified("Malo") = 1
  /\ result.kpis.Good_Meters = Num(10)
  /\ result.kpis.Total_Meters = Num(15)
  /\ result.kpis.Good_Bond_Percentage = RDiv(Num(200), Num(3))

\* the four fields of the score
ScoreFields == {"Diferencia_TOC", "TOC_Evaluacion_T", "Adherencia_A", "Cement_Score"}

C30_SealWindow ==
  Ok =>
    /\ Len(result.layerAnalysis) = Len(args.layers)
    /\ \A k \in 1..Len(args.layers) :
         LET capa == args.layers[k]
             item == result.layerAnalysis[k]
             W == InWindow(capa.top, capa.base)
             S == SealInWindow(capa)
         IN /\ item.Capa = capa.wellName
            /\ item.Tope = capa.top /\ item.Base = capa.base
            /\ W \subseteq S
            /\ item.AdherenciaSello =
                  IF S = {} THEN NAN ELSE AdhesionOf(BadMeters(S), WindowLength(S))
            /\ IsNum(item.Adherencia) => IsNum(item.AdherenciaSello)

\* two layers in input order, the first with a seal window wider than its own
\* window and another adhesion, the second below the log with neither
C30_Witness ==
  /\ Ok
  /\ Len(args.layers) = 2
  /\ Lt(args.layers[1].base, args.layers[2].top)
  /\ LET W == InWindow(args.layers[1].top, args.layers[1].base)
         S == SealInWindow(args.layers[1])
     IN /\ W # {} /\ W # S
        /\ IsNum(result.layerAnalysis[1].Adherencia)
        /\ IsNum(result.layerAnalysis[1].AdherenciaSello)
        /\ result.layerAnalysis[1].Adherencia # result.layerAnalysis[1].AdherenciaSello
  /\ SealInWindow(args.layers[2]) = {}
  /\ result.layerAnalysis[2].AdherenciaSello = NAN

====
